---- MODULE Spec2Model ----
(***************************************************************************)
(* LSB image steganography (steganography.py) and its GUI host (main.py).  *)
(* Images are records [mode, width, height, bytes]: bytes is the flat      *)
(* sequence of channel values in getdata() order.  Text is a sequence of   *)
(* code points, a binary string a sequence of 0/1.                         *)
(***************************************************************************)
EXTENDS Integers, Sequences, FiniteSets, TLC

(* ------------------------------ bounds --------------------------------- *)
MaxWidth == 4
MaxHeight == 8
MaxGroups == 2
MaxMsgLen == 2
MaxBitGroups == 2

(* ------------------------- values and helpers -------------------------- *)
None == [none |-> TRUE]

Min(a, b) == IF a < b THEN a ELSE b

RECURSIVE Pow2(_)
Pow2(n) == IF n = 0 THEN 1 ELSE 2 * Pow2(n - 1)

RECURSIVE Concat(_)
Concat(ss) == IF ss = <<>> THEN <<>> ELSE Head(ss) \o Concat(Tail(ss))

RECURSIVE SeqsUpTo(_, _)
SeqsUpTo(S, n) ==
  IF n = 0 THEN {<<>>}
  ELSE LET shorter == SeqsUpTo(S, n - 1)
       IN shorter \cup {Append(s, x) : s \in {t \in shorter : Len(t) = n - 1}, x \in S}

(* Python's bin digits of a non-negative integer, most significant first. *)
RECURSIVE BinDigits(_)
BinDigits(n) == IF n < 2 THEN <<n>> ELSE Append(BinDigits(n \div 2), n % 2)

(* format(n, "08b"): the binary digits, left-padded with zeros to width 8
   (a number above 255 yields more than 8 digits). *)
Format08b(n) ==
  LET d == BinDigits(n)
  IN IF Len(d) >= 8 THEN d ELSE [i \in 1..(8 - Len(d)) |-> 0] \o d

(* int(representation, 2) *)
RECURSIVE BinToInt(_)
BinToInt(bits) ==
  IF bits = <<>> THEN 0
  ELSE 2 * BinToInt(SubSeq(bits, 1, Len(bits) - 1)) + bits[Len(bits)]

(* x & 254 and x | bit on non-negative integers *)
And254(x) == (x % 256) - (x % 2)
And252(x) == (x % 256) - (x % 4)
OrBit(x, bit) == IF bit = 1 /\ x % 2 = 0 THEN x + 1 ELSE x

(* unidecode(message): ASCII passes through, other code points are replaced
   by their ASCII transliteration, which may be longer or empty. *)
Transliterate(c) ==
  IF c < 128 THEN <<c>>
  ELSE IF c = 223 THEN <<115, 115>>
  ELSE IF c = 233 THEN <<101>>
  ELSE <<>>

unidecode(message) == Concat([i \in DOMAIN message |-> Transliterate(message[i])])

(* --------------------------- steganography.py -------------------------- *)
Raise(kind, touched) == [status |-> kind, value |-> None, touched |-> touched]
Return(v, touched) == [status |-> "ok", value |-> v, touched |-> touched]

determineBytesPerPixelDefault(mode) ==
  IF mode = "RGB" THEN Return(3, FALSE) ELSE Return(4, FALSE)

determineBytesPerPixel(mode) ==
  IF mode = "RGB" THEN Return(3, FALSE)
  ELSE IF mode = "RGBA" THEN Return(4, FALSE)
  ELSE Raise("UnsupportedFormat", FALSE)

calculateImageCapacity(img) ==
  LET bytes_per_pixel == determineBytesPerPixel(img.mode)
  IN IF bytes_per_pixel.status # "ok" THEN bytes_per_pixel
     ELSE Return((img.width * img.height * bytes_per_pixel.value) \div 8, FALSE)

(* Image.getbands(): number of values getdata() yields per pixel. *)
Bands(mode) ==
  IF mode = "RGB" THEN 3
  ELSE IF mode = "RGBA" THEN 4
  ELSE IF mode = "CMYK" THEN 4
  ELSE 1

(* np.array(list(img.getdata())): one row per pixel for a multi-band image
   (ndim 2); a flat array of scalars for a single-band image or an image
   without pixels (ndim 1). *)
GetData(img) ==
  LET b == Bands(img.mode)
      n == img.width * img.height
  IN IF n = 0 THEN [ndim |-> 1, rows |-> <<>>]
     ELSE IF b = 1 THEN [ndim |-> 1, rows |-> img.bytes]
     ELSE [ndim |-> 2,
           rows |-> [k \in 1..n |-> SubSeq(img.bytes, (k - 1) * b + 1, k * b)]]

(* position of data[row][col] in iteration order, counted from 0 *)
FlatIndex(data, row, col) == (row - 1) * Len(data.rows[1]) + (col - 1)

TotalBytes(data) == IF data.rows = <<>> THEN 0 ELSE Len(data.rows) * Len(data.rows[1])

clearLSBitsWeak(data) ==
  [data EXCEPT !.rows = [row \in DOMAIN data.rows |->
      [col \in DOMAIN data.rows[row] |-> And252(data.rows[row][col])]]]

clearLSBits(data) ==
  [data EXCEPT !.rows = [row \in DOMAIN data.rows |->
      [col \in DOMAIN data.rows[row] |-> And254(data.rows[row][col])]]]

(* The loop ORs bit number index into the index-th byte while index is below
   required_bytes and returns data at the first byte past the message; when
   there is no such byte the loop ends and the function returns None. *)
encodeBitsShifted(data, binary_string) ==
  LET required_bytes == Len(binary_string)
  IN IF TotalBytes(data) <= required_bytes THEN None
     ELSE [data EXCEPT !.rows = [row \in DOMAIN data.rows |->
             [col \in DOMAIN data.rows[row] |->
                LET index == FlatIndex(data, row, col)
                IN IF index >= 1 /\ index <= required_bytes
                   THEN OrBit(data.rows[row][col], binary_string[index])
                   ELSE data.rows[row][col]]]]

encodeBits(data, binary_string) ==
  LET required_bytes == Len(binary_string)
  IN IF TotalBytes(data) <= required_bytes THEN None
     ELSE [data EXCEPT !.rows = [row \in DOMAIN data.rows |->
             [col \in DOMAIN data.rows[row] |->
                LET index == FlatIndex(data, row, col)
                IN IF index < required_bytes
                   THEN OrBit(data.rows[row][col], binary_string[index + 1])
                   ELSE data.rows[row][col]]]]

(* "".join([format(ord(char), "08b") for char in message]) *)
MessageBinary(message) == Concat([i \in DOMAIN message |-> Format08b(message[i])])

(* the comparison of line 78 *)
TooLongLoose(message_binary, capacity) == Len(message_binary) > 64 * capacity
TooLong(message_binary, capacity) == Len(message_binary) > capacity

(* data.reshape(height, width, bytes_per_pixel), astype("uint8"), fromarray *)
FromArray(data, img) ==
  [mode |-> img.mode, width |-> img.width, height |-> img.height,
   bytes |-> Concat([r \in DOMAIN data.rows |->
                       [c \in DOMAIN data.rows[r] |-> data.rows[r][c] % 256]])]

encode(img, message) ==
  LET capacity == calculateImageCapacity(img)
  IN IF capacity.status # "ok" THEN Raise(capacity.status, FALSE)
     ELSE LET message_binary == MessageBinary(unidecode(message))
          IN IF TooLong(message_binary, capacity.value)
             THEN Raise("MessageTooLarge", FALSE)
             ELSE LET data == encodeBits(clearLSBits(GetData(img)), message_binary)
                  IN IF data = None THEN Raise("AttributeError", TRUE)
                     ELSE Return(FromArray(data, img), TRUE)

(* len(data[row]) raises TypeError when data[row] is a scalar *)
extractLSBits(data) ==
  IF data.ndim = 1 /\ data.rows # <<>> THEN Raise("TypeError", TRUE)
  ELSE Return(Concat([row \in DOMAIN data.rows |->
                 [col \in DOMAIN data.rows[row] |-> Format08b(data.rows[row][col])[8]]]),
              TRUE)

(* byte_list: the slices binary_string[i:i+8] for i = 0, 8, 16, ... *)
ByteList(binary_string) ==
  [k \in 1..((Len(binary_string) + 7) \div 8) |->
     SubSeq(binary_string, 8 * (k - 1) + 1, Min(8 * k, Len(binary_string)))]

Zeros8 == <<0, 0, 0, 0, 0, 0, 0, 0>>

RECURSIVE DecodeLoopSkip(_, _, _)
DecodeLoopSkip(byte_list, k, message) ==
  IF k > Len(byte_list) THEN message
  ELSE IF byte_list[k] # Zeros8
       THEN DecodeLoopSkip(byte_list, k + 1, Append(message, BinToInt(byte_list[k])))
       ELSE DecodeLoopSkip(byte_list, k + 1, message)

RECURSIVE DecodeLoop(_, _, _)
DecodeLoop(byte_list, k, message) ==
  IF k > Len(byte_list) THEN message
  ELSE IF byte_list[k] # Zeros8
       THEN DecodeLoop(byte_list, k + 1, Append(message, BinToInt(byte_list[k])))
       ELSE message

convertSkippingZeros(binary_string) == DecodeLoopSkip(ByteList(binary_string), 1, <<>>)

convertBinaryStringToMessage(binary_string) == DecodeLoop(ByteList(binary_string), 1, <<>>)

decode(img) ==
  LET binary_string == extractLSBits(GetData(img))
  IN IF binary_string.status # "ok" THEN binary_string
     ELSE Return(convertBinaryStringToMessage(binary_string.value), TRUE)

(* ------------------------------ main.py -------------------------------- *)
NoImage == [mode |-> "none", width |-> 0, height |-> 0, bytes |-> <<>>]
NoCall == [fn |-> "none", img |-> NoImage, message |-> <<>>]
NoResult == [status |-> "none", value |-> None, touched |-> FALSE]
NoClick == [button |-> "none", input |-> <<>>]
Missing == [missing |-> TRUE]
NotAnImage == [garbage |-> TRUE]

(* getImageInfo: the fields the image itself decides *)
getImageInfo(img, absolute_path) ==
  LET capacity == calculateImageCapacity(img)
  IN IF capacity.status # "ok" THEN capacity
     ELSE Return([absolute_path |-> absolute_path,
                  width |-> img.width, height |-> img.height,
                  total_pixels |-> img.width * img.height,
                  capacity |-> capacity.value, color_mode |-> img.mode], FALSE)

(* the guards of the handlers *)
NothingSelected(file) == Len(file) = 0
NoImageLoaded(image) == image = None
NeverEmpty(message) == Len(message) < 0
EmptyMessage(message) == Len(message) < 1

(* --------------------------- input domains ----------------------------- *)
Modes == {"RGB", "RGBA", "CMYK", "L"}
Widths == 1..MaxWidth
Heights == {1, 2, 4, MaxHeight}
GroupCodes == {0, 65, 255}
Seeds == SeqsUpTo(GroupCodes, MaxGroups) \ {<<>>}

(* An image whose least significant bits repeat the 8-bit groups of seed and
   whose upper seven bits vary from byte to byte. *)
MakeImage(mode, width, height, seed) ==
  [mode |-> mode, width |-> width, height |-> height,
   bytes |-> [i \in 1..(width * height * Bands(mode)) |->
                LET p == i - 1
                    g == seed[((p \div 8) % Len(seed)) + 1]
                IN 2 * ((7 * p + g) % 128) + ((g \div Pow2(7 - (p % 8))) % 2)]]

Images == {MakeImage(m, w, h, s) : m \in Modes, w \in Widths, h \in Heights, s \in Seeds}

Alphabet == {0, 65, 223}
Hi == <<72, 105>>
Hello6 == <<72, 101, 108, 108, 111, 33>>
Hello7 == <<72, 101, 108, 108, 111, 33, 33>>
Messages == SeqsUpTo(Alphabet, MaxMsgLen) \cup {Hi, Hello6, Hello7}

Tails == {<<>>, <<0>>, <<1>>, <<0, 0, 0>>, <<1, 0, 1, 1, 1, 1, 1>>}
BitStrings ==
  {Concat([k \in DOMAIN gs |-> Format08b(gs[k])]) \o t :
     gs \in SeqsUpTo(GroupCodes \cup {128}, MaxBitGroups), t \in Tails}

VARIABLES pc, img, given, message, capacity, encoded, decoded,
          binary_string, converted,
          loaded_image, loaded_file_path, modified_image, files, popup,
          fieldResult, core_call, clicked

coreVars == <<img, given, message, capacity, encoded, decoded>>
bitVars == <<binary_string, converted>>
guiVars == <<loaded_image, loaded_file_path, modified_image, files, popup,
             fieldResult, core_call, clicked>>
vars == <<pc, coreVars, bitVars, guiVars>>

CoreIdle ==
  /\ img = NoImage /\ given = NoImage /\ message = <<>>
  /\ capacity = NoResult /\ encoded = NoResult /\ decoded = NoResult
BitsIdle == binary_string = <<>> /\ converted = <<>>
GuiIdle ==
  /\ loaded_image = None /\ loaded_file_path = None /\ modified_image = None
  /\ files = <<>> /\ popup = "none" /\ fieldResult = <<>> /\ core_call = NoCall
  /\ clicked = NoClick

(* ---------------- the core functions applied to one image -------------- *)
Init ==
  /\ pc = "ready"
  /\ img \in Images
  /\ given = img
  /\ message = <<>>
  /\ capacity = NoResult /\ encoded = NoResult /\ decoded = NoResult
  /\ BitsIdle /\ GuiIdle

Capacity ==
  /\ pc = "ready"
  /\ capacity' = calculateImageCapacity(img)
  /\ pc' = "capacity"
  /\ UNCHANGED <<img, given, message, encoded, decoded, bitVars, guiVars>>

(* encode() works on the array built from img.getdata(); img is not written *)
Encode(m) ==
  /\ pc = "ready"
  /\ message' = m
  /\ encoded' = encode(img, m)
  /\ pc' = "encoded"
  /\ UNCHANGED <<img, given, capacity, decoded, bitVars, guiVars>>

Decode ==
  /\ pc = "ready"
  /\ decoded' = decode(img)
  /\ pc' = "decoded"
  /\ UNCHANGED <<img, given, message, capacity, encoded, bitVars, guiVars>>

DecodeEncoded ==
  /\ pc = "encoded"
  /\ encoded.status = "ok"
  /\ decoded' = decode(encoded.value)
  /\ pc' = "roundtrip"
  /\ UNCHANGED <<img, given, message, capacity, encoded, bitVars, guiVars>>

Next ==
  \/ Capacity
  \/ \E m \in Messages : Encode(m)
  \/ Decode
  \/ DecodeEncoded

Spec == Init /\ [][Next]_vars

(* ------------- convertBinaryStringToMessage on bit strings ------------- *)
InitBits ==
  /\ pc = "ready"
  /\ binary_string \in BitStrings
  /\ converted = <<>>
  /\ CoreIdle /\ GuiIdle

Convert ==
  /\ pc = "ready"
  /\ converted' = convertBinaryStringToMessage(binary_string)
  /\ pc' = "converted"
  /\ UNCHANGED <<binary_string, coreVars, guiVars>>

NextBits == Convert

SpecBits == InitBits /\ [][NextBits]_vars

(* ------------------------------ the GUI -------------------------------- *)
Paths == {"rgba.png", "wide.png", "small.png", "gray.png", "broken.png", "out.png"}
SavePaths == {"", "out.png"}
GuiMessages == {<<>>, <<65>>, <<233>>, <<223>>, <<65, 0>>}

InitialFiles ==
  [p \in Paths |->
     IF p = "rgba.png" THEN MakeImage("RGBA", 2, 8, <<65, 0>>)
     ELSE IF p = "wide.png" THEN MakeImage("RGB", 4, 8, <<255>>)
     ELSE IF p = "small.png" THEN MakeImage("RGB", 1, 1, <<0>>)
     ELSE IF p = "gray.png" THEN MakeImage("L", 2, 2, <<255>>)
     ELSE IF p = "broken.png" THEN NotAnImage
     ELSE Missing]

InitGUI ==
  /\ pc = "gui"
  /\ loaded_file_path = None
  /\ loaded_image = None
  /\ modified_image = None
  /\ files = InitialFiles
  /\ popup = "none" /\ fieldResult = <<>> /\ core_call = NoCall /\ clicked = NoClick
  /\ CoreIdle /\ BitsIdle

(* file is what the open dialog returns: an existing file, or "" on cancel *)
loadImageFile(file) ==
  /\ file = "" \/ (file \in Paths /\ files[file] # Missing)
  /\ clicked' = [button |-> "load", input |-> file]
  /\ core_call' = NoCall
  /\ IF NothingSelected(file) \/ files[file] = NotAnImage
     THEN /\ popup' = "error"
          /\ UNCHANGED <<loaded_image, loaded_file_path>>
     ELSE /\ loaded_image' = files[file]
          /\ loaded_file_path' = file
          /\ popup' = IF getImageInfo(files[file], file).status = "ok"
                      THEN "none" ELSE "error"
  /\ UNCHANGED <<pc, modified_image, files, fieldResult, coreVars, bitVars>>

(* image.save(file) precedes the test of the file name and raises on "" *)
saveImageFile(file) ==
  /\ clicked' = [button |-> "save", input |-> file]
  /\ core_call' = NoCall
  /\ IF NoImageLoaded(modified_image) \/ file = ""
     THEN /\ popup' = "error"
          /\ UNCHANGED files
     ELSE /\ files' = [files EXCEPT ![file] = modified_image]
          /\ popup' = "info"
  /\ UNCHANGED <<pc, loaded_image, loaded_file_path, modified_image, fieldResult,
                 coreVars, bitVars>>

encodeMessage(text) ==
  /\ clicked' = [button |-> "encode", input |-> text]
  /\ IF NoImageLoaded(loaded_image) \/ EmptyMessage(text)
     THEN /\ popup' = "error"
          /\ core_call' = NoCall
          /\ UNCHANGED modified_image
     ELSE LET result == encode(loaded_image, text)
          IN /\ core_call' = [fn |-> "encode", img |-> loaded_image, message |-> text]
             /\ IF result.status = "ok"
                THEN modified_image' = result.value /\ popup' = "none"
                ELSE popup' = "error" /\ UNCHANGED modified_image
  /\ UNCHANGED <<pc, loaded_image, loaded_file_path, files, fieldResult,
                 coreVars, bitVars>>

decodeImage ==
  /\ clicked' = [button |-> "decode", input |-> <<>>]
  /\ IF NoImageLoaded(loaded_image)
     THEN /\ popup' = "error"
          /\ core_call' = NoCall
          /\ UNCHANGED fieldResult
     ELSE LET result == decode(loaded_image)
          IN /\ core_call' = [fn |-> "decode", img |-> loaded_image, message |-> <<>>]
             /\ IF result.status = "ok"
                THEN fieldResult' = result.value /\ popup' = "none"
                ELSE popup' = "error" /\ UNCHANGED fieldResult
  /\ UNCHANGED <<pc, loaded_image, loaded_file_path, modified_image, files,
                 coreVars, bitVars>>

NextGUI ==
  \/ \E file \in Paths \cup {""} : loadImageFile(file)
  \/ \E file \in SavePaths : saveImageFile(file)
  \/ \E text \in GuiMessages : encodeMessage(text)
  \/ decodeImage

SpecGUI == InitGUI /\ [][NextGUI]_vars

(* ============================ properties =============================== *)
(* Reference notions the properties are stated with, independent of the
   operators above. *)
Supported(mode) == mode \in {"RGB", "RGBA"}
ChannelsOf(mode) == IF mode = "RGB" THEN 3 ELSE 4
CapacityOf(image) == (image.width * image.height * ChannelsOf(image.mode)) \div 8
IsAscii(text) == \A i \in DOMAIN text : text[i] >= 0 /\ text[i] < 128
Lsb(bytes, i) == bytes[i] % 2
(* bit number i (from 1) of a text, 8 bits per character, high bit first *)
TextBit(text, i) == (text[((i - 1) \div 8) + 1] \div Pow2(7 - ((i - 1) % 8))) % 2
(* value of the j-th group of eight least significant bits *)
GroupValue(bytes, j) ==
  LET b(t) == Lsb(bytes, 8 * (j - 1) + t)
  IN 128 * b(1) + 64 * b(2) + 32 * b(3) + 16 * b(4) + 8 * b(5) + 4 * b(6) + 2 * b(7) + b(8)
FullGroups(bytes) == Len(bytes) \div 8
FirstZeroGroup(bytes, k) ==
  /\ k \in 1..FullGroups(bytes)
  /\ GroupValue(bytes, k) = 0
  /\ \A j \in 1..(k - 1) : GroupValue(bytes, j) # 0
(* the image the last decode read *)
DecodedFrom == IF pc = "roundtrip" THEN encoded.value ELSE img

(* C1: for an ASCII message that encode accepts, decoding the encoded image
   returns the message. *)
C1_RoundTrip ==
  (pc = "roundtrip" /\ IsAscii(message))
    => (decoded.status = "ok" /\ decoded.value = message)

(* C2: encode rejects with MessageTooLarge only when the normalized bit count
   exceeds 8 x capacity, and succeeds for every message of at most capacity
   characters. *)
C2_AcceptanceThreshold ==
  (pc = "encoded" /\ Supported(img.mode))
    => /\ (encoded.status = "MessageTooLarge"
             => 8 * Len(unidecode(message)) > 8 * CapacityOf(img))
       /\ (Len(unidecode(message)) <= CapacityOf(img) => encoded.status = "ok")

(* C3: when the message's bit length exceeds the capacity, encode fails with
   MessageTooLarge without having read or written a byte, and the caller's
   image is what it was before the call.  The capacity is taken as the
   character count the code compares with; a bit length above 8 x capacity
   is above it too. *)
C3_OverflowRejection ==
  (pc = "encoded" /\ Supported(img.mode)
     /\ 8 * Len(unidecode(message)) > CapacityOf(img))
    => /\ encoded.status = "MessageTooLarge"
       /\ ~encoded.touched
       /\ encoded.value = None
       /\ img = given

C3_Witness ==
  /\ pc = "encoded" /\ img.mode = "RGB" /\ img.width = 4 /\ img.height = 4
  /\ message = Hello7
  /\ encoded.status = "MessageTooLarge"

(* C4: a successful encode returns a buffer of the input's length in which
   the upper seven bits of every byte are those of the input. *)
C4_LsbOnlyMutation ==
  (pc = "encoded" /\ encoded.status = "ok")
    => /\ Len(encoded.value.bytes) = Len(img.bytes)
       /\ \A i \in DOMAIN img.bytes :
            encoded.value.bytes[i] \div 2 = img.bytes[i] \div 2

C4_Witness ==
  /\ pc = "encoded" /\ encoded.status = "ok" /\ message # <<>>
  /\ \E i \in DOMAIN img.bytes :
       i <= 8 * Len(unidecode(message)) /\ encoded.value.bytes[i] # img.bytes[i]
  /\ \E i \in DOMAIN img.bytes :
       i > 8 * Len(unidecode(message)) /\ encoded.value.bytes[i] # img.bytes[i]

(* C5: after a successful encode the least significant bits of the output,
   in buffer order, are the bits of the normalized message (8 per character,
   high bit first) followed by 0 up to the end of the buffer. *)
C5_LsbLayout ==
  (pc = "encoded" /\ encoded.status = "ok")
    => LET text == unidecode(message)
       IN \A i \in DOMAIN encoded.value.bytes :
            Lsb(encoded.value.bytes, i) =
              IF i <= 8 * Len(text) THEN TextBit(text, i) ELSE 0

C5_Witness ==
  /\ pc = "encoded" /\ encoded.status = "ok" /\ Len(unidecode(message)) = 2
  /\ \E i \in DOMAIN img.bytes : i > 16 /\ Lsb(img.bytes, i) = 1
  /\ \E i \in 1..16 : Lsb(img.bytes, i) # TextBit(unidecode(message), i)

(* C6: when the least significant bits of the decoded buffer hold an
   all-zero 8-bit group, decode returns the characters of the groups before
   the first such group and nothing else. *)
C6_SentinelTruncation ==
  (pc \in {"decoded", "roundtrip"} /\ decoded.status = "ok")
    => \A k \in 1..FullGroups(DecodedFrom.bytes) :
         FirstZeroGroup(DecodedFrom.bytes, k)
           => decoded.value = [j \in 1..(k - 1) |-> GroupValue(DecodedFrom.bytes, j)]

C6_Witness ==
  /\ pc = "decoded" /\ decoded.status = "ok"
  /\ \E k \in 2..FullGroups(img.bytes) :
       /\ FirstZeroGroup(img.bytes, k)
       /\ \E j \in (k + 1)..FullGroups(img.bytes) : GroupValue(img.bytes, j) # 0
       /\ Len(decoded.value) = k - 1

C8_DecodeTotal ==
  (pc = "decoded") => decoded.status = "ok"

(* C9: when the bit string's length is not a multiple of 8 and no full group
   is all zero, the final short group adds no character: the result is the
   characters of the full groups, floor(len / 8) of them. *)
C9_PartialTailDiscarded ==
  (/\ pc = "converted"
   /\ Len(binary_string) % 8 # 0
   /\ \A j \in 1..FullGroups(binary_string) : GroupValue(binary_string, j) # 0)
    => /\ Len(converted) <= Len(binary_string) \div 8
       /\ converted = [j \in 1..FullGroups(binary_string) |->
                         GroupValue(binary_string, j)]

(* C10: over any sequence of GUI actions, the core is called only with a
   loaded image, encode only with a non-empty message, a file is written only
   when a modified image exists; an action rejected for one of these reasons,
   and an encode the core fails, reports an error and leaves loaded_image,
   loaded_file_path and modified_image as they were. *)
C10_HostPreconditions ==
  [][LET rejected ==
           \/ clicked'.button \in {"encode", "decode"} /\ loaded_image = None
           \/ clicked'.button = "encode" /\ Len(clicked'.input) = 0
           \/ clicked'.button = "save" /\ modified_image = None
         failed ==
           /\ core_call'.fn = "encode"
           /\ encode(core_call'.img, core_call'.message).status # "ok"
     IN /\ core_call'.fn # "none"
             => loaded_image # None /\ core_call'.img = loaded_image
        /\ core_call'.fn = "encode" => Len(core_call'.message) >= 1
        /\ files' # files => modified_image # None
        /\ rejected => core_call'.fn = "none" /\ files' = files
        /\ (rejected \/ failed)
             => /\ popup' = "error"
                /\ UNCHANGED <<loaded_image, loaded_file_path, modified_image>>]_vars

C10_Witness ==
  /\ pc = "gui" /\ clicked.button = "encode"
  /\ core_call.fn = "encode" /\ popup = "error"
  /\ modified_image # None /\ files["out.png"] # Missing

====
